---- MODULE Spec2Model ----
(***************************************************************************)
(* Model of crates/sui/src/sui_move/new.rs: the `sui move new` adapter     *)
(* (New::execute) around the package scaffold generator                    *)
(* move_cli::base::new::New::execute.                                      *)
(*                                                                         *)
(* The adapter is translated from new.rs.  The generator is a library     *)
(* whose code is not part of new.rs; it is modelled from section 4.1 of    *)
(* the specification (Generate and its helpers).                           *)
(*                                                                         *)
(* Strings that are case-converted or compared by name (package names,     *)
(* dependency names, address names) are sequences of one-character         *)
(* strings, so that to_lowercase is computed character by character.       *)
(***************************************************************************)
EXTENDS Integers, Sequences, FiniteSets, TLC

\* ---- bounds ----
MaxNameLen == 2
MaxCalls == 2

\* ---- alphabet of package names given on the command line ----
Chars == {"C", "c"}

Names == UNION {[1..n -> Chars] : n \in 0..MaxNameLen}

\* ---- char::to_lowercase on the alphabet (and on SUI_PKG_NAME) ----
LowerChar(ch) ==
    CASE ch = "C" -> "c"
      [] ch = "S" -> "s"
      [] OTHER -> ch

\* mutant: lower-casing forgotten
to_lowercase_identity(s) == s

\* str::to_lowercase, new.rs line 19
to_lowercase(s) == [i \in 1..Len(s) |-> LowerChar(s[i])]

\* ---- constants of new.rs ----
SUI_PKG_NAME == <<"S", "u", "i">>
SUI_PKG_PATH == "{ git = \"https://github.com/MystenLabs/sui.git\", subdir = \"crates/sui-framework\", rev = \"main\" }"

\* ---- paths: Option<PathBuf> ----
None == [kind |-> "none", p |-> <<>>]
Rel(n) == [kind |-> "rel", p |-> n]
TargetPaths == {[kind |-> "abs", p |-> <<"t">>]}
Paths == {Rel(n) : n \in Names} \cup TargetPaths
PathOpts == {None} \cup TargetPaths

\* ---- directory contents ----
NoManifest == [package |-> [name |-> <<>>, version |-> ""],
               dependencies |-> <<>>, addresses |-> <<>>]
Absent == [exists |-> FALSE, entries |-> {}, manifest |-> NoManifest, srcs |-> {}]
EmptyDir == [Absent EXCEPT !.exists = TRUE]
ForeignDir == [EmptyDir EXCEPT !.entries = {"other"}]
NonEmpty(d) == d.exists /\ d.entries # {}

\* ---- results ----
Ok == "Ok"
InvalidName == "InvalidName"
AlreadyExists == "AlreadyExists"
IoError == "IoError"
NoResult == "none"

Faults == {"none", "root", "sources", "manifest"}
Recoveries == {"rollback", "mark"}

\* ---- generator, specification section 4.1 ----
ValidName(n) == Len(n) > 0 /\ \A i \in 1..Len(n) : n[i] # "/"

ResolveDir(name, path) == IF path = None THEN Rel(name) ELSE path

RenderManifest(name, version, deps, addrs) ==
    [package |-> [name |-> name, version |-> version],
     dependencies |-> deps, addresses |-> addrs]

\* the directory after the steps up to (not including) the failing one
WriteSteps(name, version, deps, addrs, seed, fault) ==
    LET d1 == EmptyDir
        d2 == [d1 EXCEPT !.entries = @ \cup {"sources"}]
        d3 == [d2 EXCEPT !.entries = @ \cup {"Manifest"},
                         !.manifest = RenderManifest(name, version, deps, addrs)]
        d4 == IF seed # "" THEN [d3 EXCEPT !.srcs = @ \cup {name}] ELSE d3
    IN CASE fault = "sources" -> d1
         [] fault = "manifest" -> d2
         [] OTHER -> d4

Generate(files, self, path, version, deps, addrs, seed, fault, recover) ==
    LET dir == ResolveDir(self.name, path) IN
    IF ~ValidName(self.name)
    THEN [res |-> InvalidName, fs |-> files, io |-> "none"]
    ELSE IF NonEmpty(files[dir])
    THEN [res |-> AlreadyExists, fs |-> files, io |-> "none"]
    ELSE IF fault = "none"
    THEN [res |-> Ok, io |-> "none",
          fs |-> [files EXCEPT ![dir] =
                    WriteSteps(self.name, version, deps, addrs, seed, fault)]]
    ELSE IF fault = "root" \/ recover = "rollback"
    THEN [res |-> IoError, fs |-> files, io |-> fault]
    ELSE [res |-> IoError, io |-> fault,
          fs |-> [files EXCEPT ![dir] =
                    [WriteSteps(self.name, version, deps, addrs, seed, fault)
                       EXCEPT !.entries = @ \cup {".failed"}]]]

\* ---- adapter, new.rs ----
\* the struct New { new: new::New { name } } built by the argument parser
NewStruct(n) == [new |-> [name |-> n]]
NoCmd == [new |-> [name |-> <<>>], st |-> "none"]
Consumed == [new |-> [name |-> <<>>], st |-> "moved"]

\* mutant: the lower-cased name is handed to the generator as package name
NewArgs_LowerSelf(self, path) ==
    LET name == to_lowercase(self.new.name) IN
    [self |-> [name |-> name], path |-> path, version |-> "0.0.1",
     deps |-> << <<SUI_PKG_NAME, SUI_PKG_PATH>> >>,
     addrs |-> << <<name, "0x0">> >>,
     custom |-> ""]

\* mutant: the target path is dropped
NewArgs_NoPath(self, path) ==
    LET name == to_lowercase(self.new.name) IN
    [self |-> self.new, path |-> None, version |-> "0.0.1",
     deps |-> << <<SUI_PKG_NAME, SUI_PKG_PATH>> >>,
     addrs |-> << <<name, "0x0">> >>,
     custom |-> ""]

\* mutant: a non-empty content block is passed
NewArgs_Seed(self, path) ==
    LET name == to_lowercase(self.new.name) IN
    [self |-> self.new, path |-> path, version |-> "0.0.1",
     deps |-> << <<SUI_PKG_NAME, SUI_PKG_PATH>> >>,
     addrs |-> << <<name, "0x0">> >>,
     custom |-> "module"]

\* the arguments of the generator call, new.rs lines 19-25
NewArgs(self, path) ==
    LET name == to_lowercase(self.new.name) IN
    [self |-> self.new, path |-> path, version |-> "0.0.1",
     deps |-> << <<SUI_PKG_NAME, SUI_PKG_PATH>> >>,
     addrs |-> << <<name, "0x0">> >>,
     custom |-> ""]

\* mutant: the generator's error is swallowed
Propagate_Swallow(r) == Ok

\* `?` followed by Ok(()), new.rs lines 26-27
Propagate(r) == IF r # Ok THEN r ELSE Ok

CallGenerator(files, a, fault, recover) ==
    Generate(files, a.self, a.path, a.version, a.deps, a.addrs, a.custom,
             fault, recover)

\* mutant: one retry after a failed generator call
NewExecute_Retry(files, self, path, fault, recover) ==
    LET a == NewArgs(self, path)
        g1 == CallGenerator(files, a, fault, recover)
        g2 == CallGenerator(g1.fs, a, "none", recover)
        g == IF g1.res # Ok THEN g2 ELSE g1
    IN [res |-> Propagate(g.res), genRes |-> g.res, fs |-> g.fs,
        io |-> g1.io, req |-> a,
        genCalls |-> IF g1.res # Ok THEN 2 ELSE 1]

\* New::execute, new.rs lines 18-28
NewExecute(files, self, path, fault, recover) ==
    LET a == NewArgs(self, path)
        g == CallGenerator(files, a, fault, recover)
    IN [res |-> Propagate(g.res), genRes |-> g.res, fs |-> g.fs,
        io |-> g.io, req |-> a, genCalls |-> 1]

\* ---- state ----
VARIABLES
    fs,        \* the filesystem: directory contents by path
    pc,        \* "idle", "parsed", "done": position of the command
    argv,      \* the command line of the current invocation
    cmd,       \* the New struct: NoCmd, a struct, or Consumed (moved)
    result,    \* what New::execute returned
    genRes,    \* what the generator returned to New::execute
    genCalls,  \* generator calls made by the current invocation
    req,       \* the arguments the generator was called with
    io,        \* the filesystem fault that hit the current invocation
    calls      \* invocations so far

vars == <<fs, pc, argv, cmd, result, genRes, genCalls, req, io, calls>>

NoArgv == [name |-> <<>>, path |-> None]
NoReq == [self |-> [name |-> <<>>], path |-> None, version |-> "",
          deps |-> <<>>, addrs |-> <<>>, custom |-> ""]

InitFiles ==
    {[p \in Paths |-> IF p \in TargetPaths THEN t ELSE Absent] :
        t \in {Absent, EmptyDir, ForeignDir}}

Init ==
    /\ fs \in InitFiles
    /\ pc = "idle"
    /\ argv = NoArgv
    /\ cmd = NoCmd
    /\ result = NoResult
    /\ genRes = NoResult
    /\ genCalls = 0
    /\ req = NoReq
    /\ io = "none"
    /\ calls = 0

\* the argument parser builds the New struct from the command line
Parse ==
    /\ pc = "idle"
    /\ calls < MaxCalls
    /\ \E n \in Names, p \in PathOpts :
         /\ argv' = [name |-> n, path |-> p]
         /\ cmd' = NewStruct(n)
    /\ pc' = "parsed"
    /\ calls' = calls + 1
    /\ result' = NoResult
    /\ genRes' = NoResult
    /\ genCalls' = 0
    /\ req' = NoReq
    /\ io' = "none"
    /\ UNCHANGED fs

\* New::execute(self, path)
Execute ==
    /\ pc = "parsed"
    /\ \E f \in Faults, r \in Recoveries :
         LET out == NewExecute(fs, cmd, argv.path, f, r) IN
         /\ fs' = out.fs
         /\ result' = out.res
         /\ genRes' = out.genRes
         /\ genCalls' = out.genCalls
         /\ req' = out.req
         /\ io' = out.io
    /\ cmd' = Consumed
    /\ pc' = "done"
    /\ UNCHANGED <<argv, calls>>

\* the process exits; only the filesystem survives
Exit ==
    /\ pc = "done"
    /\ pc' = "idle"
    /\ argv' = NoArgv
    /\ cmd' = NoCmd
    /\ result' = NoResult
    /\ genRes' = NoResult
    /\ genCalls' = 0
    /\ req' = NoReq
    /\ io' = "none"
    /\ UNCHANGED <<fs, calls>>

Next == Parse \/ Execute \/ Exit

Spec == Init /\ [][Next]_vars

\* ---- vocabulary of the properties ----
\* lower-casing stated independently of to_lowercase
LowerCased(n) == [i \in 1..Len(n) |-> IF n[i] = "C" THEN "c" ELSE n[i]]
HasUpper(n) == \E i \in 1..Len(n) : n[i] = "C"

\* an invocation is executing in this step
Executing == pc = "parsed" /\ pc' = "done"

TargetDir == ResolveDir(argv.name, argv.path)

ExpectedManifest(pkgName, addrName) ==
    [package |-> [name |-> pkgName, version |-> "0.0.1"],
     dependencies |-> << << <<"S", "u", "i">>, SUI_PKG_PATH >> >>,
     addresses |-> << <<addrName, "0x0">> >>]

C1Case ==
    /\ Executing
    /\ ValidName(argv.name)
    /\ ~NonEmpty(fs[TargetDir])
    /\ io' = "none"

\* C1 (as amended): for every valid package name P whose target directory
\* does not exist (or is empty), when no filesystem operation fails,
\* New::execute succeeds and the manifest lists exactly: the package name
\* equal to P as given (not lower-cased), version "0.0.1", the one
\* dependency Sui with the fixed source descriptor, and the one address
\* binding lowercase(P) = "0x0".
C1_ManifestAsGiven ==
    [][C1Case =>
         /\ result' = Ok
         /\ "Manifest" \in fs'[TargetDir].entries
         /\ fs'[TargetDir].manifest =
              ExpectedManifest(argv.name, LowerCased(argv.name))]_vars

C1_Witness ==
    /\ pc = "done"
    /\ result = Ok
    /\ HasUpper(argv.name)
    /\ fs[TargetDir].manifest =
         ExpectedManifest(argv.name, LowerCased(argv.name))

\* C1 (original): as above, but the manifest's package name is the
\* lower-cased P.
C1_Original ==
    [][C1Case =>
         /\ result' = Ok
         /\ "Manifest" \in fs'[TargetDir].entries
         /\ fs'[TargetDir].manifest =
              ExpectedManifest(LowerCased(argv.name), LowerCased(argv.name))]_vars

C5Case ==
    /\ Executing
    /\ result' = Ok
    /\ argv.path = None
    /\ HasUpper(argv.name)

\* C5 (as amended): with a package name P containing upper-case letters and
\* no target path, the created directory and the manifest's package name
\* are both P as given, the address-binding name is lowercase(P), and no
\* directory lowercase(P) is created or changed: directory name and
\* manifest name agree, the address-binding name differs from them.
C5_DirAndNameAsGiven ==
    [][C5Case =>
         /\ "Manifest" \in fs'[Rel(argv.name)].entries
         /\ fs'[Rel(argv.name)].manifest.package.name = argv.name
         /\ fs'[Rel(argv.name)].manifest.addresses[1][1] = LowerCased(argv.name)
         /\ fs'[Rel(argv.name)].manifest.addresses[1][1] # argv.name
         /\ fs'[Rel(LowerCased(argv.name))] = fs[Rel(LowerCased(argv.name))]]_vars

C5_Witness ==
    /\ pc = "done"
    /\ result = Ok
    /\ argv.path = None
    /\ argv.name = <<"C", "c">>
    /\ "Manifest" \in fs[Rel(<<"C", "c">>)].entries
    /\ fs[Rel(<<"C", "c">>)].manifest.package.name = <<"C", "c">>
    /\ fs[Rel(<<"C", "c">>)].manifest.addresses = << << <<"c", "c">>, "0x0" >> >>
    /\ ~fs[Rel(<<"c", "c">>)].exists

\* C5 (original): with a package name containing upper-case letters and no
\* target path, the created directory is named lowercase(P), and the
\* directory name, the manifest's package name and the address-binding name
\* are the same lower-cased string.
C5_Original ==
    [][C5Case =>
         /\ "Manifest" \in fs'[Rel(LowerCased(argv.name))].entries
         /\ fs'[Rel(LowerCased(argv.name))].manifest.package.name
              = LowerCased(argv.name)
         /\ fs'[Rel(LowerCased(argv.name))].manifest.addresses[1][1]
              = LowerCased(argv.name)]_vars

\* C6: when a target path is supplied, it reaches the generator unmodified,
\* the manifest and the sources subdirectory are created directly in it and
\* nothing else changes (no directory named after the package appears in
\* the working directory); when it is absent, they are created in the
\* directory named after the package under the working directory.
C6_OutputDirectory ==
    [][Executing /\ result' = Ok =>
         /\ req'.path = argv.path
         /\ LET d == IF argv.path # None THEN argv.path ELSE Rel(argv.name) IN
            /\ {"Manifest", "sources"} \subseteq fs'[d].entries
            /\ \A q \in Paths \ {d} : fs'[q] = fs[q]]_vars

C6_Witness ==
    /\ pc = "done"
    /\ result = Ok
    /\ argv.path # None
    /\ req.path = argv.path
    /\ {"Manifest", "sources"} \subseteq fs[argv.path].entries
    /\ ~fs[Rel(argv.name)].exists

\* C7: New::execute returns Ok exactly when the generator returned Ok, and
\* when the generator returned an error it returns that same error.
C7_ErrorPropagated ==
    pc = "done" =>
        /\ result = genRes
        /\ genRes \in {Ok, InvalidName, AlreadyExists, IoError}

C7_Witness ==
    /\ pc = "done"
    /\ genRes = IoError
    /\ result = IoError

\* C9: the adapter always passes empty seed content, so after every
\* successful invocation the target directory contains the manifest and the
\* sources subdirectory, and the sources subdirectory holds no source file.
C9_NoSeedFile ==
    pc = "done" =>
        /\ req.custom = ""
        /\ result = Ok =>
             /\ {"Manifest", "sources"} \subseteq fs[TargetDir].entries
             /\ fs[TargetDir].srcs = {}

C9_Witness ==
    /\ pc = "done"
    /\ result = Ok
    /\ req.custom = ""
    /\ fs[TargetDir].entries = {"Manifest", "sources"}
    /\ fs[TargetDir].srcs = {}

====
